---------------------------- MODULE Spec2Model ----------------------------
(***************************************************************************)
(* A state-machine model of two view components:                           *)
(*                                                                         *)
(*   TableEdit         the table block's editing form: the creation form,  *)
(*                     the cell selection, the row/column menu, the        *)
(*                     column alignment and the header/footer toggles.     *)
(*   LinkPickerScreen  the mobile link picker screen inside a bottom       *)
(*                     sheet.                                              *)
(*                                                                         *)
(* TableEdit computes every replacement of the table attributes with the   *)
(* helpers it imports from './state' (createTable, updateSelectedCell,     *)
(* insertRow, deleteRow, insertColumn, deleteColumn, toggleSection,        *)
(* isEmptyTableSection).  They are modelled below as pure operators.       *)
(***************************************************************************)
EXTENDS Integers, Sequences, FiniteSets

VARIABLES
    attributes,          \* the block attributes head, body, foot
    initialRowCount,     \* useState( 2 ): text of the "Row count" input
    initialColumnCount,  \* useState( 2 ): text of the "Column count" input
    selectedCell,        \* useState(): the cell selection, or NoCell
    lastOp,              \* history: the handler that ran last
    lastArg,             \* history: the content or align it was given
    threw,               \* history: the last handler raised an error
    setAttributesCalled, \* history: the last handler called setAttributes
    ops,                 \* history: how many table edits have run
    mounted,             \* LinkPickerScreen: the mount effect has run
    isChildrenScrollable,\* BottomSheetContext's flag
    pendingTasks,        \* callbacks given to runAfterInteractions, not yet run
    interactions,        \* interactions (animations, gestures) in progress
    started,             \* history: interactions started so far
    calls                \* history: the calls made to the host, in order

tableVars == <<attributes, initialRowCount, initialColumnCount, selectedCell,
               lastOp, lastArg, threw, setAttributesCalled, ops>>
linkVars == <<mounted, isChildrenScrollable, pendingTasks, interactions,
              started, calls>>
vars == <<attributes, initialRowCount, initialColumnCount, selectedCell,
          lastOp, lastArg, threw, setAttributesCalled, ops,
          mounted, isChildrenScrollable, pendingTasks, interactions,
          started, calls>>

---------------------------------------------------------------------------
(* Bounds of the model *)

\* how many table edits (menu actions, toggles, content and alignment
\* changes) a behaviour holds
MaxOps == 4
\* the longest text typed into a count input
MaxLen == 2
\* how many times the user picks or cancels in the link picker
MaxPicks == 2
\* how many interactions the host starts
MaxInteractions == 2

---------------------------------------------------------------------------
(* Values *)

\* JavaScript's undefined, where a string is expected
Undefined == "undefined"

SectionNames == {"head", "body", "foot"}

\* the align values the toolbar is tried with: two of ALIGNMENT_CONTROLS,
\* and the undefined it passes when the active alignment is switched off
Aligns == {"left", "right", Undefined}

\* RichText content values a cell is changed to
Contents == {"x"}

\* selectedCell when no cell is selected (useState() starts undefined)
NoCell == [type |-> Undefined, sectionName |-> Undefined,
           rowIndex |-> 0, columnIndex |-> 0]

Min(a, b) == IF a < b THEN a ELSE b

\* Array.prototype.slice( from, to ) on 0-based indices, clamped to the array
Slice(arr, from, to) == SubSeq(arr, from + 1, Min(to, Len(arr)))

\* arr.filter( ( x, index ) => index !== at ), 0-based
RemoveAt(arr, at) ==
    LET keep == {i \in 1..Len(arr) : i - 1 # at}
        RECURSIVE build(_)
        build(i) == IF i > Len(arr) THEN << >>
                    ELSE IF i \in keep THEN <<arr[i]>> \o build(i + 1)
                    ELSE build(i + 1)
    IN build(1)

\* rows.filter( ( row ) => row.cells.length )
RowsWithCells(rows) ==
    LET RECURSIVE build(_)
        build(i) == IF i > Len(rows) THEN << >>
                    ELSE IF Len(rows[i].cells) # 0
                         THEN <<rows[i]>> \o build(i + 1)
                    ELSE build(i + 1)
    IN build(1)

---------------------------------------------------------------------------
(* The helpers of './state' *)

isEmptyRow(row) == Len(row.cells) = 0

isEmptyTableSection(section) ==
    \/ Len(section) = 0
    \/ \A i \in 1..Len(section) : isEmptyRow(section[i])

\* the indices times( n, ... ) runs over, from 1: none for n < 1
Times(n) == 1..(IF n < 0 THEN 0 ELSE n)

createTable(rowCount, columnCount) ==
    [body |-> [r \in Times(rowCount) |->
                 [cells |-> [c \in Times(columnCount) |->
                     [content |-> "", tag |-> "td", align |-> Undefined]]]]]

\* the first row of the first non-empty section, as a sequence of at most
\* one row (empty: undefined)
getFirstRow(state) ==
    IF ~isEmptyTableSection(state.head) THEN <<state.head[1]>>
    ELSE IF ~isEmptyTableSection(state.body) THEN <<state.body[1]>>
    ELSE IF ~isEmptyTableSection(state.foot) THEN <<state.foot[1]>>
    ELSE << >>

isCellSelected(cellLocation, selection) ==
    CASE selection.type = "column" ->
            cellLocation.columnIndex = selection.columnIndex
      [] selection.type = "cell" ->
            /\ cellLocation.sectionName = selection.sectionName
            /\ cellLocation.columnIndex = selection.columnIndex
            /\ cellLocation.rowIndex = selection.rowIndex
      [] OTHER -> FALSE

\* The three sections with the selected cells updated.  Both callers pass
\* an updateCell of the form ( cellAttributes ) => ( { ...cellAttributes,
\* [ attributeName ]: value } ), given here by attributeName and value.
updateSelectedCell(state, selection, attributeName, value) ==
    [sectionName \in SectionNames |->
        IF selection.sectionName # Undefined
           /\ selection.sectionName # sectionName
        THEN state[sectionName]
        ELSE [r \in 1..Len(state[sectionName]) |->
                [cells |->
                    [c \in 1..Len(state[sectionName][r].cells) |->
                        IF isCellSelected(
                               [sectionName |-> sectionName,
                                columnIndex |-> c - 1,
                                rowIndex |-> r - 1], selection)
                        THEN [state[sectionName][r].cells[c]
                                 EXCEPT ![attributeName] = value]
                        ELSE state[sectionName][r].cells[c]]]]]

\* columnCount is a sequence of at most one number (empty: not given)
insertRowCellCount(state, columnCount) ==
    IF columnCount = << >>
    THEN (IF getFirstRow(state) = << >> THEN 0
          ELSE Len(getFirstRow(state)[1].cells))
    ELSE columnCount[1]

\* state[ sectionName ] of an undefined sectionName is undefined, and
\* reading .slice of it raises a TypeError
insertRowThrows(state, sectionName, columnCount) ==
    /\ insertRowCellCount(state, columnCount) # 0
    /\ sectionName \notin SectionNames

\* the partial attributes insertRow returns: the section with a blank row
\* at rowIndex, or nothing when the cell count cannot be determined
insertRow(state, sectionName, rowIndex, columnCount) ==
    LET firstRow == getFirstRow(state)
        cellCount == insertRowCellCount(state, columnCount)
        newCell(i) ==
            [content |-> "",
             tag |-> IF sectionName = "head" THEN "th" ELSE "td",
             align |-> IF firstRow # << >> /\ i <= Len(firstRow[1].cells)
                       THEN firstRow[1].cells[i].align
                       ELSE Undefined]
    IN IF cellCount = 0 THEN state
       ELSE [s \in {sectionName} |->
                Slice(state[sectionName], 0, rowIndex)
                \o <<[cells |-> [i \in Times(cellCount) |-> newCell(i)]]>>
                \o Slice(state[sectionName], rowIndex, Len(state[sectionName]))]

deleteRowThrows(sectionName) == sectionName \notin SectionNames

deleteRow(state, sectionName, rowIndex) ==
    [s \in {sectionName} |-> RemoveAt(state[sectionName], rowIndex)]

insertColumn(state, columnIndex) ==
    [sectionName \in SectionNames |->
        IF isEmptyTableSection(state[sectionName]) THEN state[sectionName]
        ELSE [r \in 1..Len(state[sectionName]) |->
                LET row == state[sectionName][r]
                IN IF isEmptyRow(row) \/ Len(row.cells) < columnIndex THEN row
                   ELSE [cells |->
                            Slice(row.cells, 0, columnIndex)
                            \o <<[content |-> "",
                                  tag |-> IF sectionName = "head"
                                          THEN "th" ELSE "td",
                                  align |-> Undefined]>>
                            \o Slice(row.cells, columnIndex, Len(row.cells))]]]

deleteColumn(state, columnIndex) ==
    [sectionName \in SectionNames |->
        IF isEmptyTableSection(state[sectionName]) THEN state[sectionName]
        ELSE RowsWithCells(
                [r \in 1..Len(state[sectionName]) |->
                    [cells |-> RemoveAt(state[sectionName][r].cells,
                                        columnIndex)]])]

toggleSection(state, sectionName) ==
    IF ~isEmptyTableSection(state[sectionName])
    THEN [s \in {sectionName} |-> << >>]
    ELSE insertRow(state, sectionName, 0,
                   <<IF Len(state.body) = 0 THEN 1
                     ELSE Len(state.body[1].cells)>>)

---------------------------------------------------------------------------
(* TableEdit *)

\* setAttributes( partial ): the attributes with the given ones replaced
SetAttributes(attrs, partial) ==
    [head |-> IF "head" \in DOMAIN partial THEN partial.head ELSE attrs.head,
     body |-> IF "body" \in DOMAIN partial THEN partial.body ELSE attrs.body,
     foot |-> IF "foot" \in DOMAIN partial THEN partial.foot ELSE attrs.foot]

\* the characters typed into the count inputs
InputChars == {"-", "0", "1", "2", "a"}

Digits == {"0", "1", "2"}

DigitValue(c) == CASE c = "0" -> 0 [] c = "1" -> 1 [] c = "2" -> 2

\* every text of at most n characters
RECURSIVE Texts(_)
Texts(n) ==
    IF n = 0 THEN {<< >>}
    ELSE Texts(n - 1)
         \cup {Append(t, c) : t \in {u \in Texts(n - 1) : Len(u) = n - 1},
                               c \in InputChars}

\* parseInt( text, 10 ): an optional sign, then the longest run of digits;
\* a sequence of at most one number (empty: NaN)
parseInt(text) ==
    LET negative == Len(text) > 0 /\ text[1] = "-"
        rest == IF negative THEN Tail(text) ELSE text
        RECURSIVE value(_, _)
        value(i, acc) ==
            IF i > Len(rest) \/ rest[i] \notin Digits THEN acc
            ELSE value(i + 1, 10 * acc + DigitValue(rest[i]))
    IN IF Len(rest) = 0 \/ rest[1] \notin Digits THEN << >>
       ELSE <<IF negative THEN 0 - value(1, 0) ELSE value(1, 0)>>

\* parseInt( count, 10 ) || 2
parseCount(text) ==
    IF parseInt(text) = << >> \/ parseInt(text) = <<0>> THEN 2
    ELSE parseInt(text)[1]

\* isEmpty: the creation form is rendered instead of the table
isEmpty ==
    /\ isEmptyTableSection(attributes.head)
    /\ isEmptyTableSection(attributes.body)
    /\ isEmptyTableSection(attributes.foot)

\* what the component renders
Rendered == IF isEmpty THEN "placeholder" ELSE "table"

\* isDisabled of each of the six tableControls
tableControlsDisabled == selectedCell = NoCell

\* the history a handler leaves that ran to its end
RanWith(op, arg, called) ==
    /\ lastOp' = op
    /\ lastArg' = arg
    /\ threw' = FALSE
    /\ setAttributesCalled' = called

Ran(op, called) == RanWith(op, Undefined, called)

\* the history a handler leaves that raised an error before setAttributes
Raised(op) ==
    /\ lastOp' = op
    /\ lastArg' = Undefined
    /\ threw' = TRUE
    /\ setAttributesCalled' = FALSE

onChangeInitialColumnCount(count) ==
    /\ isEmpty
    /\ initialColumnCount' = count
    /\ Ran("onChangeInitialColumnCount", FALSE)
    /\ UNCHANGED <<attributes, initialRowCount, selectedCell, ops>>
    /\ UNCHANGED linkVars

onChangeInitialRowCount(count) ==
    /\ isEmpty
    /\ initialRowCount' = count
    /\ Ran("onChangeInitialRowCount", FALSE)
    /\ UNCHANGED <<attributes, initialColumnCount, selectedCell, ops>>
    /\ UNCHANGED linkVars

onCreateTable ==
    /\ isEmpty
    /\ attributes' = SetAttributes(attributes,
                         createTable(parseCount(initialRowCount),
                                     parseCount(initialColumnCount)))
    /\ Ran("onCreateTable", TRUE)
    /\ UNCHANGED <<initialRowCount, initialColumnCount, selectedCell,
                   ops>>
    /\ UNCHANGED linkVars

\* the row and column indices of the table's cells
RowIndices ==
    UNION {0..(Len(attributes[name]) - 1) : name \in SectionNames}

ColumnIndices ==
    UNION {UNION {0..(Len(attributes[name][r].cells) - 1) :
                     r \in 1..Len(attributes[name])} :
              name \in SectionNames}

\* unstableOnFocus of the RichText of a rendered cell
onFocusCell(name, rowIndex, columnIndex) ==
    /\ ~isEmpty
    /\ ~isEmptyTableSection(attributes[name])
    /\ rowIndex \in 0..(Len(attributes[name]) - 1)
    /\ columnIndex \in 0..(Len(attributes[name][rowIndex + 1].cells) - 1)
    /\ selectedCell' = [sectionName |-> name, rowIndex |-> rowIndex,
                         columnIndex |-> columnIndex, type |-> "cell"]
    /\ Ran("onFocusCell", FALSE)
    /\ UNCHANGED <<attributes, initialRowCount, initialColumnCount,
                   ops>>
    /\ UNCHANGED linkVars

\* the user puts the focus in one of the rendered cells
onFocusRenderedCell ==
    \E name \in SectionNames, rowIndex \in RowIndices,
       columnIndex \in ColumnIndices :
        onFocusCell(name, rowIndex, columnIndex)

\* unstableOnFocus of the figcaption
onFocusCaption ==
    /\ ~isEmpty
    /\ selectedCell' = NoCell
    /\ Ran("onFocusCaption", FALSE)
    /\ UNCHANGED <<attributes, initialRowCount, initialColumnCount,
                   ops>>
    /\ UNCHANGED linkVars

\* The isSelected prop has become false and the effect on [ isSelected ]
\* runs.  The prop is read nowhere else, and the effect does nothing when it
\* has become true, so the prop needs no variable of its own.
onBlockDeselected ==
    /\ selectedCell' = NoCell
    /\ Ran("onBlockDeselected", FALSE)
    /\ UNCHANGED <<attributes, initialRowCount, initialColumnCount, ops>>
    /\ UNCHANGED linkVars

\* a handler of the rendered table runs; one that gets past its early
\* return is counted as a table edit
Edit(counted) ==
    /\ ~isEmpty
    /\ ops < MaxOps
    /\ ops' = IF counted THEN ops + 1 ELSE ops
    /\ UNCHANGED <<initialRowCount, initialColumnCount>>
    /\ UNCHANGED linkVars

\* onChange without its early return
onChange_NoEarlyReturn(content) ==
    /\ Edit(selectedCell # NoCell)
    /\ attributes' = SetAttributes(attributes,
            updateSelectedCell(attributes, selectedCell, "content", content))
    /\ RanWith("onChange", content, TRUE)
    /\ UNCHANGED selectedCell

onChange(content) ==
    /\ Edit(selectedCell # NoCell)
    /\ IF selectedCell = NoCell
       THEN /\ RanWith("onChange", content, FALSE)
            /\ UNCHANGED <<attributes, selectedCell>>
       ELSE /\ attributes' = SetAttributes(attributes,
                    updateSelectedCell(attributes, selectedCell,
                                       "content", content))
            /\ RanWith("onChange", content, TRUE)
            /\ UNCHANGED selectedCell

\* a column selection that keeps the cell's section
columnSelection_KeepsSection(cell) ==
    [type |-> "column", columnIndex |-> cell.columnIndex,
     sectionName |-> cell.sectionName, rowIndex |-> 0]

\* the column selection the cell selection is converted to
columnSelection(cell) ==
    [type |-> "column", columnIndex |-> cell.columnIndex,
     sectionName |-> Undefined, rowIndex |-> 0]

onChangeColumnAlignment(align) ==
    /\ Edit(selectedCell # NoCell)
    /\ IF selectedCell = NoCell
       THEN /\ RanWith("onChangeColumnAlignment", align, FALSE)
            /\ UNCHANGED <<attributes, selectedCell>>
       ELSE /\ attributes' = SetAttributes(attributes,
                    updateSelectedCell(attributes,
                        columnSelection(selectedCell), "align", align))
            /\ RanWith("onChangeColumnAlignment", align, TRUE)
            /\ UNCHANGED selectedCell

\* a toggle that adds a row whether or not the section exists
toggled_AddOnly(attrs, sectionName) ==
    SetAttributes(attrs,
        insertRow(attrs, sectionName, 0,
                  <<IF Len(attrs.body) = 0 THEN 1
                    ELSE Len(attrs.body[1].cells)>>))

\* the attributes a section toggle leaves
toggled(attrs, sectionName) ==
    SetAttributes(attrs, toggleSection(attrs, sectionName))

onToggleHeaderSection ==
    /\ Edit(TRUE)
    /\ attributes' = toggled(attributes, "head")
    /\ Ran("onToggleHeaderSection", TRUE)
    /\ UNCHANGED selectedCell

onToggleFooterSection ==
    /\ Edit(TRUE)
    /\ attributes' = toggled(attributes, "foot")
    /\ Ran("onToggleFooterSection", TRUE)
    /\ UNCHANGED selectedCell

\* the selection onInsertRow leaves: the first cell of the new row
newRowSelection(sectionName, newRowIndex) ==
    [sectionName |-> sectionName, rowIndex |-> newRowIndex,
     columnIndex |-> 0, type |-> "cell"]

onInsertRow(delta) ==
    LET op == IF delta = 0 THEN "onInsertRowBefore" ELSE "onInsertRowAfter"
        sectionName == selectedCell.sectionName
        newRowIndex == selectedCell.rowIndex + delta
    IN /\ Edit(selectedCell # NoCell)
       /\ IF selectedCell = NoCell
          THEN /\ Ran(op, FALSE)
               /\ UNCHANGED <<attributes, selectedCell>>
          ELSE IF insertRowThrows(attributes, sectionName, << >>)
          THEN /\ Raised(op)
               /\ UNCHANGED <<attributes, selectedCell>>
          ELSE /\ attributes' = SetAttributes(attributes,
                       insertRow(attributes, sectionName, newRowIndex, << >>))
               /\ selectedCell' = newRowSelection(sectionName, newRowIndex)
               /\ Ran(op, TRUE)

onInsertRowBefore == onInsertRow(0)

onInsertRowAfter == onInsertRow(1)

\* onDeleteRow deleting the row after the selected one
onDeleteRow_NextRow ==
    /\ Edit(selectedCell # NoCell)
    /\ IF selectedCell = NoCell
       THEN /\ Ran("onDeleteRow", FALSE)
            /\ UNCHANGED <<attributes, selectedCell>>
       ELSE IF deleteRowThrows(selectedCell.sectionName)
       THEN /\ selectedCell' = NoCell
            /\ Raised("onDeleteRow")
            /\ UNCHANGED attributes
       ELSE /\ selectedCell' = NoCell
            /\ attributes' = SetAttributes(attributes,
                    deleteRow(attributes, selectedCell.sectionName,
                              selectedCell.rowIndex + 1))
            /\ Ran("onDeleteRow", TRUE)

onDeleteRow ==
    /\ Edit(selectedCell # NoCell)
    /\ IF selectedCell = NoCell
       THEN /\ Ran("onDeleteRow", FALSE)
            /\ UNCHANGED <<attributes, selectedCell>>
       ELSE IF deleteRowThrows(selectedCell.sectionName)
       THEN \* setSelectedCell() has run before deleteRow raises
            /\ selectedCell' = NoCell
            /\ Raised("onDeleteRow")
            /\ UNCHANGED attributes
       ELSE /\ selectedCell' = NoCell
            /\ attributes' = SetAttributes(attributes,
                    deleteRow(attributes, selectedCell.sectionName,
                              selectedCell.rowIndex))
            /\ Ran("onDeleteRow", TRUE)

\* the selection onInsertColumn leaves: it is given no sectionName
newColumnSelection(newColumnIndex) ==
    [sectionName |-> Undefined, rowIndex |-> 0,
     columnIndex |-> newColumnIndex, type |-> "cell"]

onInsertColumn(delta) ==
    LET op == IF delta = 0 THEN "onInsertColumnBefore"
              ELSE "onInsertColumnAfter"
        newColumnIndex == selectedCell.columnIndex + delta
    IN /\ Edit(selectedCell # NoCell)
       /\ IF selectedCell = NoCell
          THEN /\ Ran(op, FALSE)
               /\ UNCHANGED <<attributes, selectedCell>>
          ELSE /\ attributes' = SetAttributes(attributes,
                       insertColumn(attributes, newColumnIndex))
               /\ selectedCell' = newColumnSelection(newColumnIndex)
               /\ Ran(op, TRUE)

onInsertColumnBefore == onInsertColumn(0)

onInsertColumnAfter == onInsertColumn(1)

\* onDeleteColumn without setSelectedCell()
onDeleteColumn_KeepsSelection ==
    /\ Edit(selectedCell # NoCell)
    /\ IF selectedCell = NoCell
       THEN /\ Ran("onDeleteColumn", FALSE)
            /\ UNCHANGED <<attributes, selectedCell>>
       ELSE /\ attributes' = SetAttributes(attributes,
                    deleteColumn(attributes, selectedCell.columnIndex))
            /\ Ran("onDeleteColumn", TRUE)
            /\ UNCHANGED selectedCell

onDeleteColumn ==
    /\ Edit(selectedCell # NoCell)
    /\ IF selectedCell = NoCell
       THEN /\ Ran("onDeleteColumn", FALSE)
            /\ UNCHANGED <<attributes, selectedCell>>
       ELSE /\ selectedCell' = NoCell
            /\ attributes' = SetAttributes(attributes,
                    deleteColumn(attributes, selectedCell.columnIndex))
            /\ Ran("onDeleteColumn", TRUE)

---------------------------------------------------------------------------
(* Specifications of TableEdit *)

LinkInit ==
    /\ mounted = FALSE
    /\ isChildrenScrollable \in BOOLEAN
    /\ pendingTasks = 0
    /\ interactions = 0
    /\ started = 0
    /\ calls = << >>

TableInit ==
    /\ attributes = [head |-> << >>, body |-> << >>, foot |-> << >>]
    /\ initialRowCount = <<"2">>
    /\ initialColumnCount = <<"2">>
    /\ selectedCell = NoCell
    /\ lastOp = "none"
    /\ lastArg = Undefined
    /\ threw = FALSE
    /\ setAttributesCalled = FALSE
    /\ ops = 0

\* TableEdit with no link picker on screen
Init == TableInit /\ LinkInit /\ ~isChildrenScrollable

\* LinkPickerScreen before it mounts; the flag is what the host left it
InitLink == TableInit /\ LinkInit

\* the counts typed into the creation form while the table is edited
CountInputs == {<<"1">>}

Next ==
    \/ \E count \in CountInputs : onChangeInitialColumnCount(count)
    \/ \E count \in CountInputs : onChangeInitialRowCount(count)
    \/ onCreateTable
    \/ onFocusRenderedCell
    \/ onFocusCaption
    \/ onBlockDeselected
    \/ \E content \in Contents : onChange(content)
    \/ \E align \in Aligns : onChangeColumnAlignment(align)
    \/ onToggleHeaderSection
    \/ onToggleFooterSection
    \/ onInsertRowBefore
    \/ onInsertRowAfter
    \/ onDeleteRow
    \/ onInsertColumnBefore
    \/ onInsertColumnAfter
    \/ onDeleteColumn

Spec == Init /\ [][Next]_vars

\* the creation form alone, with every text of at most MaxLen characters
NextCreate ==
    \/ \E count \in Texts(MaxLen) : onChangeInitialColumnCount(count)
    \/ \E count \in Texts(MaxLen) : onChangeInitialRowCount(count)
    \/ onCreateTable

SpecCreate == Init /\ [][NextCreate]_vars

---------------------------------------------------------------------------
(* LinkPickerScreen *)

\* the links the picker offers
Urls == {"u1", "u2"}
Titles == {"t1", "t2"}

\* a call to the host: fn( a, b )
Call(fn, a, b) == [fn |-> fn, a |-> a, b |-> b]

NavigationCalls == {i \in 1..Len(calls) : calls[i].fn \in {"navigate", "goBack"}}

\* the effect with no dependencies: runs once, when the screen mounts
onMount ==
    /\ ~mounted
    /\ mounted' = TRUE
    /\ isChildrenScrollable' = TRUE
    /\ calls' = Append(calls, Call("setIsChildrenScrollable", "true", Undefined))
    /\ UNCHANGED <<pendingTasks, interactions, started>>
    /\ UNCHANGED tableVars

\* onLinkPicked resetting the flag itself, before it navigates
onLinkPicked_ResetFirst(url, title) ==
    /\ mounted
    /\ Cardinality(NavigationCalls) < MaxPicks
    /\ isChildrenScrollable' = FALSE
    /\ calls' = calls
                \o <<Call("setIsChildrenScrollable", "false", Undefined),
                     Call("navigate", url, title)>>
    /\ UNCHANGED <<mounted, pendingTasks, interactions, started>>
    /\ UNCHANGED tableVars

\* navigate to returnScreenName, then hand the reset of the flag to
\* InteractionManager.runAfterInteractions
onLinkPicked(url, title) ==
    /\ mounted
    /\ Cardinality(NavigationCalls) < MaxPicks
    /\ calls' = Append(calls, Call("navigate", url, title))
    /\ pendingTasks' = pendingTasks + 1
    /\ UNCHANGED <<mounted, isChildrenScrollable, interactions, started>>
    /\ UNCHANGED tableVars

onCancel ==
    /\ mounted
    /\ Cardinality(NavigationCalls) < MaxPicks
    /\ calls' = Append(calls, Call("goBack", Undefined, Undefined))
    /\ pendingTasks' = pendingTasks + 1
    /\ UNCHANGED <<mounted, isChildrenScrollable, interactions, started>>
    /\ UNCHANGED tableVars

\* the host starts an interaction (a transition animation, a gesture)
StartInteraction ==
    /\ started < MaxInteractions
    /\ started' = started + 1
    /\ interactions' = interactions + 1
    /\ UNCHANGED <<mounted, isChildrenScrollable, pendingTasks, calls>>
    /\ UNCHANGED tableVars

EndInteraction ==
    /\ interactions > 0
    /\ interactions' = interactions - 1
    /\ UNCHANGED <<mounted, isChildrenScrollable, pendingTasks, started, calls>>
    /\ UNCHANGED tableVars

\* InteractionManager runs a scheduled task once no interaction is in
\* progress: the task is () => setIsChildrenScrollable( false )
RunAfterInteractions ==
    /\ pendingTasks > 0
    /\ interactions = 0
    /\ pendingTasks' = pendingTasks - 1
    /\ isChildrenScrollable' = FALSE
    /\ calls' = Append(calls, Call("setIsChildrenScrollable", "false", Undefined))
    /\ UNCHANGED <<mounted, interactions, started>>
    /\ UNCHANGED tableVars

NextLink ==
    \/ onMount
    \/ \E url \in Urls, title \in Titles : onLinkPicked(url, title)
    \/ onCancel
    \/ StartInteraction
    \/ EndInteraction
    \/ RunAfterInteractions

\* Every interaction ends, and InteractionManager runs a scheduled task
\* once it may.
SpecLink ==
    /\ InitLink
    /\ [][NextLink]_vars
    /\ WF_vars(EndInteraction)
    /\ WF_vars(RunAfterInteractions)

---------------------------------------------------------------------------
(* Properties *)

\* the cell selection names a rendered cell of attrs
CellExists(attrs, cell) ==
    /\ cell.type = "cell"
    /\ cell.sectionName \in SectionNames
    /\ ~isEmptyTableSection(attrs[cell.sectionName])
    /\ cell.rowIndex \in 0..(Len(attrs[cell.sectionName]) - 1)
    /\ cell.columnIndex \in
          0..(Len(attrs[cell.sectionName][cell.rowIndex + 1].cells) - 1)

\* all rows of each section have the same number of cells
Rectangular(attrs) ==
    \A name \in SectionNames : \A i, j \in 1..Len(attrs[name]) :
        Len(attrs[name][i].cells) = Len(attrs[name][j].cells)

SelectionOps == {"onChange", "onChangeColumnAlignment", "onInsertRowBefore",
                 "onInsertRowAfter", "onDeleteRow", "onInsertColumnBefore",
                 "onInsertColumnAfter", "onDeleteColumn"}

InsertOps == {"onInsertRowBefore", "onInsertRowAfter",
              "onInsertColumnBefore", "onInsertColumnAfter"}

InsertColumnOps == {"onInsertColumnBefore", "onInsertColumnAfter"}

\* C1: with no cell selected, the content change, the column alignment and
\* the six row/column menu actions do nothing: setAttributes is not called,
\* head, body and foot are unchanged, the selection stays undefined and no
\* error is raised.
C1_NoSelectionIsNoOp ==
    [][(selectedCell = NoCell /\ lastOp' \in SelectionOps)
        => /\ ~setAttributesCalled'
           /\ attributes' = attributes
           /\ selectedCell' = NoCell
           /\ ~threw']_vars

\* C1 witness: a menu action has run on a rendered table with no cell
\* selected.
C1_Witness ==
    /\ lastOp = "onInsertColumnAfter"
    /\ selectedCell = NoCell
    /\ ~setAttributesCalled
    /\ ~isEmpty

C3_DeleteLastEmptiesSection ==
    [][/\ (/\ lastOp' = "onDeleteRow"
           /\ CellExists(attributes, selectedCell)
           /\ Len(attributes[selectedCell.sectionName]) = 1)
          => isEmptyTableSection(attributes'[selectedCell.sectionName])
       /\ (/\ lastOp' = "onDeleteColumn"
           /\ CellExists(attributes, selectedCell)
           /\ \A r \in 1..Len(attributes[selectedCell.sectionName]) :
                 Len(attributes[selectedCell.sectionName][r].cells) = 1)
          => isEmptyTableSection(attributes'[selectedCell.sectionName])
       /\ (\A name \in SectionNames : isEmptyTableSection(attributes'[name]))
          => Rendered' = "placeholder"]_vars

\* C3 witness: the only row of the only section has been deleted and the
\* placeholder is rendered.
C3_Witness ==
    /\ lastOp = "onDeleteRow"
    /\ setAttributesCalled
    /\ Rendered = "placeholder"

\* C4 (as claimed): after a header or footer toggle on a rendered table, the
\* same toggle once more gives back the attributes from before the first.
C4_ToggleTwiceRestores ==
    [][/\ (lastOp' = "onToggleHeaderSection" /\ ~isEmpty')
          => toggled(attributes', "head") = attributes
       /\ (lastOp' = "onToggleFooterSection" /\ ~isEmpty')
          => toggled(attributes', "foot") = attributes]_vars

\* C4 (amended): when the toggled section has no rows, the toggle adds the
\* section and the same toggle once more gives back the attributes from
\* before the first; when it has rows, the first toggle removes them all,
\* and the second leaves a single row of blank cells in their place.
C4_ToggleTwiceFromEmpty ==
    [][/\ (lastOp' = "onToggleHeaderSection" /\ Len(attributes.head) = 0)
          => /\ ~isEmptyTableSection(attributes'.head)
             /\ toggled(attributes', "head") = attributes
       /\ (lastOp' = "onToggleFooterSection" /\ Len(attributes.foot) = 0)
          => /\ ~isEmptyTableSection(attributes'.foot)
             /\ toggled(attributes', "foot") = attributes
       /\ (lastOp' = "onToggleHeaderSection" /\ Len(attributes.head) > 0
           /\ ~isEmpty')
          => /\ attributes'.head = << >>
             /\ Len(toggled(attributes', "head").head) = 1
             /\ \A c \in 1..Len(toggled(attributes', "head").head[1].cells) :
                   toggled(attributes', "head").head[1].cells[c].content = ""
       /\ (lastOp' = "onToggleFooterSection" /\ Len(attributes.foot) > 0
           /\ ~isEmpty')
          => /\ attributes'.foot = << >>
             /\ Len(toggled(attributes', "foot").foot) = 1
             /\ \A c \in 1..Len(toggled(attributes', "foot").foot[1].cells) :
                   toggled(attributes', "foot").foot[1].cells[c].content = ""
      ]_vars

\* C4 witness: the header toggle has added a head section to a table whose
\* body holds changed content.
C4_Witness ==
    /\ lastOp = "onToggleHeaderSection"
    /\ Len(attributes.head) = 1
    /\ \E r \in 1..Len(attributes.body) :
          \E c \in 1..Len(attributes.body[r].cells) :
              attributes.body[r].cells[c].content = "x"

\* C5: with a cell selected in column c, the column alignment gives every
\* cell of column c, in every row of head, body and foot, the alignment it
\* was called with, and leaves the content and tag of those cells and the
\* whole of every other cell as they were.
C5_AlignmentIsColumnWide ==
    [][(lastOp' = "onChangeColumnAlignment" /\ selectedCell # NoCell)
        => \A name \in SectionNames :
            /\ Len(attributes'[name]) = Len(attributes[name])
            /\ \A r \in 1..Len(attributes[name]) :
                /\ Len(attributes'[name][r].cells)
                       = Len(attributes[name][r].cells)
                /\ \A c \in 1..Len(attributes[name][r].cells) :
                      attributes'[name][r].cells[c] =
                          IF c - 1 = selectedCell.columnIndex
                          THEN [attributes[name][r].cells[c]
                                   EXCEPT !.align = lastArg']
                          ELSE attributes[name][r].cells[c]]_vars

\* C5 witness: a column of a table with a head and a body has been aligned
\* left, and another column has kept its alignment.
C5_Witness ==
    /\ lastOp = "onChangeColumnAlignment"
    /\ lastArg = "left"
    /\ CellExists(attributes, selectedCell)
    /\ Len(attributes.head) > 0
    /\ Len(attributes.body) > 1
    /\ \A name \in {"head", "body"} : \A r \in 1..Len(attributes[name]) :
          /\ Len(attributes[name][r].cells) > 1
          /\ \A c \in 1..Len(attributes[name][r].cells) :
                attributes[name][r].cells[c].align =
                    IF c - 1 = selectedCell.columnIndex THEN "left"
                    ELSE Undefined

\* the number a count text stands for when it is usable, and else 2
UsableCount(text) ==
    IF parseInt(text) # << >> /\ parseInt(text)[1] >= 1
    THEN parseInt(text)[1] ELSE 2

\* C6 (as claimed): whatever the two count texts are, submitting the
\* creation form raises no error and creates a table with the number of
\* rows and columns the texts stand for, 2 standing in for each count that
\* is not a usable number: the table has at least one row and one column.
C6_CreateCoercesCounts ==
    lastOp = "onCreateTable"
    => /\ ~threw
       /\ Len(attributes.body) = UsableCount(initialRowCount)
       /\ Len(attributes.body) >= 1
       /\ \A r \in 1..Len(attributes.body) :
             /\ Len(attributes.body[r].cells) = UsableCount(initialColumnCount)
             /\ Len(attributes.body[r].cells) >= 1

\* C7 (as claimed): after a column insertion with a cell selected, the
\* selection names an existing cell, in row 0 and in the new column.
C7_InsertColumnSelectsNewCell ==
    (lastOp \in InsertColumnOps /\ setAttributesCalled)
    => /\ CellExists(attributes, selectedCell)
       /\ selectedCell.rowIndex = 0

\* C8 (as claimed): in every reachable state the selection is undefined or
\* names an existing cell of a non-empty section.
C8_SelectionIsValid ==
    selectedCell = NoCell \/ CellExists(attributes, selectedCell)

\* C9: a row or column deletion with a cell selected, the focus of the
\* caption and the deselection of the block each leave no cell selected and
\* the six menu controls disabled; and a selection only comes back by the
\* focus of a table cell.
C9_SelectionCleared ==
    [][/\ (lastOp' \in {"onDeleteRow", "onDeleteColumn"}
           /\ selectedCell # NoCell)
          => (selectedCell' = NoCell /\ tableControlsDisabled')
       /\ (lastOp' \in {"onFocusCaption", "onBlockDeselected"})
          => (selectedCell' = NoCell /\ tableControlsDisabled')
       /\ (tableControlsDisabled /\ ~tableControlsDisabled')
          => lastOp' = "onFocusCell"]_vars

\* C9 witness: a column has been deleted from a table that is still
\* rendered, and no cell is selected.
C9_Witness ==
    /\ lastOp = "onDeleteColumn"
    /\ setAttributesCalled
    /\ ~isEmpty
    /\ tableControlsDisabled

SetFalseCalls(n) ==
    {i \in 1..n : calls[i] = Call("setIsChildrenScrollable", "false", Undefined)}

NavigationCallsBefore(n) ==
    {i \in 1..n : calls[i].fn \in {"navigate", "goBack"}}

\* every reset of the flag comes after a navigation call of its own
ResetFollowsNavigation ==
    \A n \in 1..Len(calls) :
        Cardinality(SetFalseCalls(n)) <= Cardinality(NavigationCallsBefore(n))

\* the mount effect sets the flag, and nothing resets it before a pick or
\* a cancel
MountSetsScrollable ==
    (mounted /\ Cardinality(NavigationCalls) = 0) => isChildrenScrollable

\* C10: the flag is set when the screen mounts; a pick calls navigate with
\* the url and the title, a cancel calls goBack, each before the flag is
\* reset; and after a pick or a cancel the flag is in the end reset.
C10_FlagResetAfterNavigation ==
    /\ [](ResetFollowsNavigation /\ MountSetsScrollable)
    /\ (pendingTasks > 0) ~> (pendingTasks = 0 /\ ~isChildrenScrollable)

\* C10 witness: a link was picked, the host has run an interaction, and the
\* flag was reset after the navigate call.
C10_Witness ==
    /\ started > 0
    /\ ~isChildrenScrollable
    /\ \E i, j \in 1..Len(calls) :
          /\ i < j
          /\ calls[i] = Call("navigate", "u1", "t2")
          /\ calls[j] = Call("setIsChildrenScrollable", "false", Undefined)

====
